---- MODULE Spec2Model ----
(***************************************************************************)
(* Model of network/base_model.py: the epoch functions Base.step,          *)
(* Base.step_aux and Base.step_mixed_batch, run as a sequence of calls on  *)
(* one model that share the optimizer, the criterion trackers and the list *)
(* of secondary data loaders.                                              *)
(*                                                                         *)
(* A call is modelled in three kinds of steps: the entry (argument         *)
(* normalisation, up to "loss_dict = {}"), one step per iteration of the   *)
(* batch loop, and the exit (the report loop and the return).  An          *)
(* exception leaves the call in pc = "failed" with the exception in err.   *)
(*                                                                         *)
(* Numbers: a normalised loss weight a/sum(loss_weights) is kept as the    *)
(* numerator a over the common denominator w_den; a running mean is kept   *)
(* as the pair <<accumulated loss, count>>.  Criterion indices are 0-based *)
(* as in the source.                                                       *)
(***************************************************************************)
EXTENDS Integers, Sequences, FiniteSets, TLC

\* ------------------------------------------------------------------ bounds
\* Longest primary data source (number of batches of data_loader).
MaxBatches == 3
\* Number of epoch calls in a run.
MaxCalls == 2
\* Samples in a batch of the primary source and of a secondary source.
RefBatchSize == 2
OtherBatchSize == 1

\* The criterions list of the calls: names of the trackers, in list order.
CritNames == <<"ce", "dice">>
NumCrit == Len(CritNames)
CritIdx == 0 .. (NumCrit - 1)
ClsName == "cls"
\* cls_weight values of step_aux.
ClsWeights == {2}
\* Lists of secondary loaders a caller may build: the length of each loader.
OtherLists == {<<2>>, <<2, 1>>, <<0>>}

\* ----------------------------------------------------------------- helpers
Range(s) == {s[i] : i \in DOMAIN s}

RECURSIVE SumSeq(_)
SumSeq(s) == IF s = <<>> THEN 0 ELSE Head(s) + SumSeq(Tail(s))

NoLoss == [loss |-> 0, cnt |-> 0]

VARIABLES
    pc,                  \* "idle" | "loop" | "returned" | "failed" | "hang"
    err,                 \* exception of the failed call, "" if none
    fn,                  \* function of the current call
    phase,               \* argument phase
    data_loader,         \* number of batches the primary source yields
    bp_loss_idx,         \* after lines 73-74: a tuple of indices
    lw_arg,              \* argument loss_weights: [given, w]
    save_image,          \* argument save_image
    cls_weight,          \* argument cls_weight (step_aux), else 0
    loss_weights,        \* after lines 75-80: index -> numerator
    w_den,               \* common denominator of loss_weights
    img_cnt,             \* batches of the primary source processed
    loss_all,            \* loss_all of the last batch
    loss_dict,           \* the report
    criterions,          \* tracker state per criterion index
    cls_criterion,       \* tracker state of cls_criterion
    params,              \* version of the model parameters
    optm,                \* optimizer calls of this call
    data_loader_others,  \* the caller's list of secondary sources
    batch,               \* composition of the last batch
    trace,               \* operations of the last batch, in order
    calls,               \* calls made so far
    h,                   \* history of this call (for the properties)
    inputs_,             \* a call of inference or of the label crop
    outputs              \* what that call has done and returned

vars == <<pc, err, fn, phase, data_loader, bp_loss_idx, lw_arg, save_image,
          cls_weight, loss_weights, w_den, img_cnt, loss_all, loss_dict,
          criterions, cls_criterion, params, optm, data_loader_others,
          batch, trace, calls, h, inputs_, outputs>>

\* ------------------------------------------------- criterion tracker
\* update(loss, size): fold one observation into the running mean.
TrackerUpdate(t, loss, size) ==
    [loss |-> t.loss + loss * size, cnt |-> t.cnt + size]

\* get_loss(): the running mean, as <<accumulated loss, count>>.
TrackerGetLoss(t) == <<t.loss, t.cnt>>

\* reset(): forget every observation.
TrackerReset(t) == NoLoss

\* ------------------------------------------------- argument normalisation
\* The argument bp_loss_idx: an int ([int |-> TRUE, v |-> 0], the default) or
\* a tuple of indices.  Lines 73-74: an int becomes a one-element tuple.
NormIdx(x) == IF x.int THEN <<x.v>> ELSE x.v

\* The position zip() leaves in the dict for key a: the last one.
LastPos(bp, a) ==
    CHOOSE i \in DOMAIN bp :
        bp[i] = a /\ \A j \in DOMAIN bp : bp[j] = a => j <= i

\* Lines 75-80: the numerators of the index -> weight dict.
WeightMap(bp, lw) ==
    IF ~lw.given
    THEN [a \in Range(bp) |-> 1]
    ELSE [a \in Range(bp) |-> lw.w[LastPos(bp, a)]]

\* Lines 76 and 79: the denominator, 1.0 by default, else sum(loss_weights).
WeightDen(lw) == IF lw.given THEN SumSeq(lw.w) ELSE 1

\* Line 78: the assertion.
LenMatch(bp, lw) == Len(lw.w) = Len(bp)

\* Line 79: a/sum(loss_weights) is evaluated once per weight.
DivByZero(lw) == Len(lw.w) > 0 /\ SumSeq(lw.w) = 0

\* ------------------------------------------------- secondary sources
\* A raw loader of n batches; depth counts the infi_loop wrappers around it.
Loader(n) == [len |-> n, depth |-> 0, pos |-> 0]

\* Lines 193-198: infi_loop(dlo).  The generator body does not run until
\* the first next(); wrapping a generator iterates that same generator.
InfiLoop(dlo) == [dlo EXCEPT !.depth = @ + 1]

WrapOthers(others) == [i \in DOMAIN others |-> InfiLoop(others[i])]

\* Line 215: the index next(dlo) yields; a pass that ended starts again.
NextIdx(dlo) == IF dlo.pos = dlo.len THEN 0 ELSE dlo.pos

AfterNext(dlo) == [dlo EXCEPT !.pos = NextIdx(dlo) + 1]

\* next() of a cycle over an empty loader never returns.
Spins(dlo) == dlo.len = 0

\* ------------------------------------------------- the batch loop
\* The value criterion c returns on batch k of the primary source when the
\* parameters are at version p (index NumCrit: cls_criterion).
LossOn(c, k, p) == 1 + ((c + k + p) % 2)

MixesOthersAnyPhase(ph) == TRUE

\* Line 213: secondary batches are drawn and concatenated.
MixesOthers(ph) == ph = "train"

SelectedAnyPhase(ph, c, bp) == c \in Range(bp)

\* Lines 102, 160, 236: criterion c is accumulated into loss_all.
Selected(ph, c, bp) == ph = "train" /\ c \in Range(bp)

BackpropsAnyPhase(ph) == TRUE

\* Lines 105, 166, 239: backward() and optm.step() run.
Backprops(ph) == ph = "train"

\* Lines 99-103: what "loss_all += loss_weights[c_cnt] * loss" adds.
Terms(ph, bp, lwmap, k, p) ==
    {[idx |-> c, w |-> lwmap[c], loss |-> LossOn(c, k, p)] :
        c \in {x \in CritIdx : Selected(ph, x, bp)}}

VisualizesEveryBatch(si, k) == si

\* Lines 109, 170, 243: the diagnostic image is built for this batch.
Visualizes(si, k) == si /\ k = 0

ClsTermUnweighted(cw, loss) == loss

\* Line 164: the auxiliary term, whatever the phase.
ClsTerm(cw, loss) == cw * loss

\* Lines 104, 162, 238: c.update(loss, image.size(0)) for every criterion.
UpdateAll(crits, k, p, size) ==
    [c \in CritIdx |-> TrackerUpdate(crits[c], LossOn(c, k, p), size)]

AfterReportKept(t) == t

\* Line 119: the tracker after its running mean was read.
AfterReport(t) == TrackerReset(t)

\* Lines 115-116: the image built from batch k.
Banner(k) == <<"banner", k>>

\* loss_dict[key] = value
Put(d, key, value) ==
    [x \in DOMAIN d \cup {key} |-> IF x = key THEN value ELSE d[x]]

\* Lines 117-119: every criterion's running mean, in list order.
RECURSIVE ReportFrom(_, _, _)
ReportFrom(d, crits, c) ==
    IF c = NumCrit THEN d
    ELSE ReportFrom(Put(d, CritNames[c + 1], TrackerGetLoss(crits[c])),
                    crits, c + 1)

RECURSIVE Rep(_, _)
Rep(s, n) == IF n = 0 THEN <<>> ELSE s \o Rep(s, n - 1)

\* The first secondary source whose next() never returns, 0 if none.
FirstSpin(others) ==
    IF \E i \in DOMAIN others : Spins(others[i])
    THEN CHOOSE i \in DOMAIN others :
            Spins(others[i]) /\ \A j \in 1 .. (i - 1) : ~Spins(others[j])
    ELSE 0

NoTotal == [terms |-> {}, cls_loss |-> 0, cls |-> 0, tensor |-> FALSE]

NoHistory ==
    [params0 |-> 0, others0 |-> <<>>,
     crit0 |-> [c \in CritIdx |-> NoLoss], cls0 |-> NoLoss,
     ep |-> [c \in CritIdx |-> NoLoss], ep_cls |-> NoLoss,
     n_upd |-> [c \in CritIdx |-> 0], n_cls |-> 0,
     drawn |-> <<>>, used |-> <<>>, n_vis |-> 0, fed |-> <<>>,
     clean |-> TRUE]

NoOptm == [zero_grad |-> 0, backward |-> 0, step |-> 0]

\* No call of inference or of the label crop.
NoCall == [op |-> "none"]

NoResult == [done |-> FALSE]

\* The model, the optimizer and the trackers after construction.
Constructed ==
    /\ pc = "idle"
    /\ err = ""
    /\ fn = "none"
    /\ phase = "none"
    /\ data_loader = 0
    /\ bp_loss_idx = <<>>
    /\ lw_arg = [given |-> FALSE, w |-> <<>>]
    /\ save_image = FALSE
    /\ cls_weight = 0
    /\ loss_weights = <<>>
    /\ w_den = 1
    /\ img_cnt = 0
    /\ loss_all = NoTotal
    /\ loss_dict = <<>>
    /\ criterions = [c \in CritIdx |-> NoLoss]
    /\ cls_criterion = NoLoss
    /\ params = 0
    /\ optm = NoOptm
    /\ data_loader_others = <<>>
    /\ batch = <<>>
    /\ trace = <<>>
    /\ calls = 0
    /\ h = NoHistory

Init ==
    /\ Constructed
    /\ inputs_ = NoCall
    /\ outputs = NoResult

\* ------------------------------------------------------------ call entry
\* The argument bp_loss_idx of the calls.
IdxArgs ==
    {[int |-> TRUE, v |-> 0], [int |-> FALSE, v |-> <<0, 1>>],
     [int |-> FALSE, v |-> <<0, 0>>], [int |-> FALSE, v |-> <<>>]}

\* The argument loss_weights of the calls.
WeightArgs ==
    {[given |-> FALSE, w |-> <<>>], [given |-> TRUE, w |-> <<3, 1>>],
     [given |-> TRUE, w |-> <<1>>], [given |-> TRUE, w |-> <<0, 0>>]}

Phases == {"train", "eval"}

\* The entry of an epoch function, up to "loss_dict = {}" (lines 73-82,
\* 130-139, 193-210).  others is the list the caller passes; list is what
\* the function leaves in that list object.
Enter(f, ph, n, idx, lw, si, cw, others, list) ==
    LET bp == NormIdx(idx) IN
    /\ calls' = calls + 1
    /\ fn' = f
    /\ phase' = ph
    /\ data_loader' = n
    /\ bp_loss_idx' = bp
    /\ lw_arg' = lw
    /\ save_image' = si
    /\ cls_weight' = cw
    /\ data_loader_others' = list
    /\ h' = [NoHistory EXCEPT !.params0 = params, !.others0 = others,
                              !.crit0 = criterions, !.cls0 = cls_criterion,
                              !.drawn = [i \in DOMAIN others |-> 0],
                              !.clean = h.clean]
    /\ IF lw.given /\ ~LenMatch(bp, lw)
       THEN /\ pc' = "failed"
            /\ err' = "AssertionError"
            /\ loss_weights' = <<>>
            /\ w_den' = 1
       ELSE IF lw.given /\ DivByZero(lw)
       THEN /\ pc' = "failed"
            /\ err' = "ZeroDivisionError"
            /\ loss_weights' = <<>>
            /\ w_den' = 1
       ELSE /\ pc' = "loop"
            /\ err' = ""
            /\ loss_weights' = WeightMap(bp, lw)
            /\ w_den' = WeightDen(lw)
    /\ UNCHANGED <<inputs_, outputs>>
    /\ UNCHANGED <<img_cnt, loss_all, loss_dict, optm, batch, trace,
                   criterions, cls_criterion, params>>

\* A call is made between two epochs.
CanCall == pc = "idle" /\ calls < MaxCalls

\* Base.step(data_loader, device, optm, phase, criterions, ...).
StepCall ==
    /\ CanCall
    /\ \E ph \in Phases, n \in 0 .. MaxBatches, idx \in IdxArgs,
          lw \in WeightArgs, si \in BOOLEAN :
            Enter("step", ph, n, idx, lw, si, 0,
              data_loader_others, data_loader_others)

\* Base.step_aux(..., cls_criterion, cls_weight, ...).
StepAuxCall ==
    /\ CanCall
    /\ \E ph \in Phases, n \in 0 .. MaxBatches, idx \in IdxArgs,
          lw \in WeightArgs, si \in BOOLEAN, cw \in ClsWeights :
            Enter("step_aux", ph, n, idx, lw, si, cw,
              data_loader_others, data_loader_others)

\* Base.step_mixed_batch(data_loader_ref, data_loader_others, ...): the
\* caller passes the list of the previous call again, or a list of loaders
\* it has just built.  Lines 197-198 replace every entry of the list.
StepMixedBatchCall ==
    /\ CanCall
    /\ \E ph \in Phases, n \in 0 .. MaxBatches, idx \in IdxArgs,
          lw \in WeightArgs, si \in BOOLEAN,
          others \in {data_loader_others}
                \cup {[i \in DOMAIN L |-> Loader(L[i])] : L \in OtherLists} :
            Enter("step_mixed_batch", ph, n, idx, lw, si, 0,
              others, WrapOthers(others))

\* ------------------------------------------------------- one iteration
Mixes == fn = "step_mixed_batch" /\ MixesOthers(phase)

Aux == fn = "step_aux"

\* loss_all after the criterion loop of this batch.
Total ==
    LET terms == Terms(phase, bp_loss_idx, loss_weights, img_cnt, params)
        loss == LossOn(NumCrit, img_cnt, params)
    IN
    [terms |-> terms,
     cls_loss |-> IF Aux THEN loss ELSE 0,
     cls |-> IF Aux THEN ClsTerm(cls_weight, loss) ELSE 0,
     tensor |-> terms # {} \/ Aux]

BatchSizeOfRef == RefBatchSize

\* image.size(0) of this batch.
BatchSize ==
    RefBatchSize
        + (IF Mixes THEN Len(data_loader_others) * OtherBatchSize ELSE 0)

\* One pass through the loop body (lines 83-116, 140-177, 211-250) that gets
\* past the data loading.  outcome: "ok", or the exception that ends it.
Iterate(outcome) ==
    LET total == Total
        size == BatchSize
        bw == Backprops(phase) /\ outcome # "AttributeError"
        vis == Visualizes(save_image, img_cnt) /\ outcome # "AttributeError"
    IN
    /\ ~(Mixes /\ FirstSpin(data_loader_others) # 0)
    /\ data_loader_others' =
          IF Mixes
          THEN [i \in DOMAIN data_loader_others |->
                    AfterNext(data_loader_others[i])]
          ELSE data_loader_others
    /\ batch' = IF Mixes
                THEN <<0>> \o [i \in DOMAIN data_loader_others |-> i]
                ELSE <<0>>
    /\ loss_all' = total
    /\ criterions' = UpdateAll(criterions, img_cnt, params, size)
    /\ cls_criterion' =
          IF Aux
          THEN TrackerUpdate(cls_criterion,
                             LossOn(NumCrit, img_cnt, params), size)
          ELSE cls_criterion
    /\ optm' = [zero_grad |-> optm.zero_grad + 1,
                backward |-> optm.backward + (IF bw THEN 1 ELSE 0),
                step |-> optm.step + (IF bw THEN 1 ELSE 0)]
    /\ params' = IF bw THEN params + 1 ELSE params
    /\ trace' =
          (IF Mixes THEN Rep(<<"next", "cat">>, Len(data_loader_others))
           ELSE <<>>)
          \o <<"zero_grad", "forward">>
          \o Rep(<<"criterion", "update">>, NumCrit)
          \o (IF Aux THEN <<"cls_criterion", "cls_update">> ELSE <<>>)
          \o (IF Backprops(phase) THEN <<"backward">> ELSE <<>>)
          \o (IF bw THEN <<"step">> ELSE <<>>)
          \o (IF vis THEN <<"make_tb_image">> ELSE <<>>)
    /\ h' = [h EXCEPT
               !.ep = UpdateAll(h.ep, img_cnt, params, size),
               !.ep_cls = IF Aux
                          THEN TrackerUpdate(
                                   h.ep_cls,
                                   LossOn(NumCrit, img_cnt, params), size)
                          ELSE h.ep_cls,
               !.n_upd = [c \in CritIdx |-> h.n_upd[c] + 1],
               !.n_cls = IF Aux THEN h.n_cls + 1 ELSE h.n_cls,
               !.n_vis = IF vis THEN h.n_vis + 1 ELSE h.n_vis,
               !.fed = Append(h.fed, size),
               !.drawn = IF Mixes
                         THEN [i \in DOMAIN h.drawn |-> h.drawn[i] + 1]
                         ELSE h.drawn,
               !.used = IF Mixes
                        THEN Append(h.used,
                                    [i \in DOMAIN data_loader_others |->
                                        NextIdx(data_loader_others[i])])
                        ELSE h.used]
    /\ IF outcome = "ok"
       THEN /\ ~(Backprops(phase) /\ ~total.tensor)
            /\ pc' = "loop"
            /\ err' = ""
            /\ img_cnt' = img_cnt + 1
            /\ loss_dict' = IF vis
                            THEN Put(loss_dict, "image", Banner(img_cnt))
                            ELSE loss_dict
       ELSE /\ outcome = "AttributeError" =>
                Backprops(phase) /\ ~total.tensor
            /\ outcome = "VisError" =>
                vis /\ ~(Backprops(phase) /\ ~total.tensor)
            /\ pc' = "failed"
            /\ err' = outcome
            /\ UNCHANGED <<img_cnt, loss_dict>>
    /\ UNCHANGED <<inputs_, outputs>>
    /\ UNCHANGED <<fn, phase, data_loader, bp_loss_idx, lw_arg, save_image,
                   cls_weight, loss_weights, w_den, calls>>

\* The loop has a next batch of the primary source.
InLoop == pc = "loop" /\ img_cnt < data_loader

\* A batch is processed to the end of the loop body.
Iteration ==
    /\ InLoop
    /\ Iterate("ok")

\* Lines 106, 240: loss_all is still the int 0 and has no backward().
BackwardFails ==
    /\ InLoop
    /\ Iterate("AttributeError")

\* Lines 115, 176, 249: vis_utils.make_tb_image raises.
VisFails ==
    /\ InLoop
    /\ Iterate("VisError")

\* Line 215: next(dlo) on a cycle over an empty loader never returns; the
\* sources before it in the list have been advanced.
OtherSpins ==
    LET i0 == FirstSpin(data_loader_others) IN
    /\ InLoop
    /\ Mixes
    /\ i0 # 0
    /\ pc' = "hang"
    /\ data_loader_others' =
          [i \in DOMAIN data_loader_others |->
              IF i < i0 THEN AfterNext(data_loader_others[i])
              ELSE data_loader_others[i]]
    /\ h' = [h EXCEPT !.drawn = [i \in DOMAIN h.drawn |->
                                    IF i < i0 THEN h.drawn[i] + 1
                                    ELSE h.drawn[i]]]
    /\ UNCHANGED <<inputs_, outputs>>
    /\ UNCHANGED <<err, fn, phase, data_loader, bp_loss_idx, lw_arg,
                   save_image, cls_weight, loss_weights, w_den, img_cnt,
                   loss_all, loss_dict, criterions, cls_criterion, params,
                   optm, batch, trace, calls>>

\* ------------------------------------------------------------- call exit
\* Lines 117-120, 178-183, 251-254: the report, the resets, the return.
Return ==
    /\ pc = "loop"
    /\ img_cnt = data_loader
    /\ pc' = "returned"
    /\ loss_dict' =
          LET d == ReportFrom(loss_dict, criterions, 0) IN
          IF Aux THEN Put(d, ClsName, TrackerGetLoss(cls_criterion)) ELSE d
    /\ criterions' = [c \in CritIdx |-> AfterReport(criterions[c])]
    /\ cls_criterion' = IF Aux THEN AfterReport(cls_criterion)
                        ELSE cls_criterion
    /\ UNCHANGED <<inputs_, outputs>>
    /\ UNCHANGED <<err, fn, phase, data_loader, bp_loss_idx, lw_arg,
                   save_image, cls_weight, loss_weights, w_den, img_cnt,
                   loss_all, params, optm, data_loader_others, batch, trace,
                   calls, h>>

\* The caller has the report, or the exception: the frame of the call is
\* gone; the model, the optimizer, the trackers and the list stay.
EpochEnds ==
    /\ pc \in {"returned", "failed"}
    /\ pc' = "idle"
    /\ err' = ""
    /\ fn' = "none"
    /\ phase' = "none"
    /\ data_loader' = 0
    /\ bp_loss_idx' = <<>>
    /\ lw_arg' = [given |-> FALSE, w |-> <<>>]
    /\ save_image' = FALSE
    /\ cls_weight' = 0
    /\ loss_weights' = <<>>
    /\ w_den' = 1
    /\ img_cnt' = 0
    /\ loss_all' = NoTotal
    /\ loss_dict' = <<>>
    /\ optm' = NoOptm
    /\ batch' = <<>>
    /\ trace' = <<>>
    /\ h' = [NoHistory EXCEPT !.clean = h.clean /\ pc = "returned"]
    /\ UNCHANGED <<inputs_, outputs>>
    /\ UNCHANGED <<criterions, cls_criterion, params, data_loader_others,
                   calls>>

Next ==
    \/ StepCall
    \/ StepAuxCall
    \/ StepMixedBatchCall
    \/ Iteration
    \/ BackwardFails
    \/ VisFails
    \/ OtherSpins
    \/ Return
    \/ EpochEnds

Spec == Init /\ [][Next]_vars

\* ------------------------------------------ inference and the label crop
\* The longest argument list and the longest tuple or list forward returns.
MaxInputs == 2
MaxTuple == 2

Tensors == {"t0", "t1"}

\* Sequences over S of at most n elements.
SeqsUpTo(S, n) == UNION {[1..k -> S] : k \in 0..n}

Tensor(t) == [kind |-> "tensor", id |-> t, v |-> <<>>]

\* What a tuple or a list returned by forward may hold: a tensor, or a
\* tuple or list of its own (its content by name).
Elements ==
    {Tensor(t) : t \in Tensors}
        \cup {[kind |-> "tuple", id |-> "", v |-> <<"t1", "t0">>],
              [kind |-> "list", id |-> "", v |-> <<"t0">>]}

\* What forward may return: a tensor, a tuple (the empty one too) or a list.
ForwardOutputs ==
    {Tensor(t) : t \in Tensors}
        \cup {[kind |-> k, id |-> "", v |-> e] :
                  k \in {"tuple", "list"}, e \in SeqsUpTo(Elements, MaxTuple)}

NoValue == [kind |-> "none", id |-> "", v |-> <<>>]

\* isinstance(outputs, tuple)
IsTuple(x) == x.kind = "tuple"

InferenceKeepsTuple(out) == [raised |-> "none", ret |-> out]

\* Lines 38-41: outputs[0] of a tuple (IndexError on the empty tuple),
\* everything else as forward returned it.
InferenceResult(out) ==
    IF IsTuple(out)
    THEN IF Len(out.v) = 0
         THEN [raised |-> "IndexError", ret |-> NoValue]
         ELSE [raised |-> "none", ret |-> out.v[1]]
    ELSE [raised |-> "none", ret |-> out]

InferenceCalls ==
    {[op |-> "inference", args |-> a, forward |-> f] :
        a \in SeqsUpTo(Tensors, MaxInputs), f \in ForwardOutputs}

\* The state of the model, the optimizer, the trackers and the epoch call.
epoch_vars ==
    <<pc, err, fn, phase, data_loader, bp_loss_idx, lw_arg, save_image,
      cls_weight, loss_weights, w_den, img_cnt, loss_all, loss_dict,
      criterions, cls_criterion, params, optm, data_loader_others,
      batch, trace, calls, h>>

\* inference(*inputs_): one call of forward on the same inputs, line 37.
Inference ==
    /\ inputs_.op = "inference"
    /\ ~outputs.done
    /\ outputs' = [done |-> TRUE,
                   forward_calls |-> <<inputs_.args>>,
                   res |-> InferenceResult(inputs_.forward)]
    /\ UNCHANGED inputs_
    /\ UNCHANGED epoch_vars

\* The largest batch, the longest side and the widest margin of a label.
MaxB == 2
MaxSide == 3
MaxMargin == 2

\* The index triples (0-based) of a tensor of shape <<B, H, W>>.
Idx(shape) ==
    {<<b, r, c>> : b \in 0..(shape[1] - 1), r \in 0..(shape[2] - 1),
                   c \in 0..(shape[3] - 1)}

\* A label of the given shape; each pixel is named by where it lies.
Label(shape) == [shape |-> shape, at |-> [i \in Idx(shape) |-> i]]

\* Where a slice bound i falls on an axis of length n: a negative bound
\* counts from the end, and both are clipped to the axis.
Bound(i, n) ==
    IF i < 0 THEN (IF i + n < 0 THEN 0 ELSE i + n)
    ELSE (IF i > n THEN n ELSE i)

\* The length of the slice start:stop of an axis of length n.
SliceLen(start, stop, n) ==
    IF Bound(stop, n) > Bound(start, n)
    THEN Bound(stop, n) - Bound(start, n) ELSE 0

\* label[:, m:-m, m:-m], line 98.
Sliced(label, m) ==
    LET H == label.shape[2]
        W == label.shape[3]
        shape == <<label.shape[1], SliceLen(m, 0 - m, H),
                   SliceLen(m, 0 - m, W)>>
    IN  [shape |-> shape,
         at |-> [i \in Idx(shape) |->
                    label.at[<<i[1], Bound(m, H) + i[2],
                               Bound(m, W) + i[3]>>]]]

CropUnguarded(label, m) == Sliced(label, m)

\* Lines 97-98: the label the criterions are given.
CropLabel(label, m) == IF m > 0 THEN Sliced(label, m) ELSE label

CropCalls ==
    {[op |-> "crop", lbl_margin |-> m, label |-> Label(<<b, hh, w>>)] :
        m \in 0..MaxMargin, b \in 1..MaxB, hh \in 1..MaxSide,
        w \in 1..MaxSide}

\* The crop of one batch's label, lines 97-98 (156, 232).
Crop ==
    /\ inputs_.op = "crop"
    /\ ~outputs.done
    /\ outputs' = [done |-> TRUE,
                   label |-> CropLabel(inputs_.label, inputs_.lbl_margin)]
    /\ UNCHANGED inputs_
    /\ UNCHANGED epoch_vars

PureCalls == InferenceCalls \cup CropCalls

InitPure ==
    /\ Constructed
    /\ inputs_ \in PureCalls
    /\ outputs = NoResult

NextPure ==
    \/ Inference
    \/ Crop

SpecPure == InitPure /\ [][NextPure]_vars

\* ------------------------------------------------------------ properties
\* Batches whose criterion loop has run in the current call.
Processed ==
    img_cnt + (IF pc = "failed" /\ err \in {"AttributeError", "VisError"}
               THEN 1 ELSE 0)

InCall == fn # "none"

\* The sum of f over the set S.
RECURSIVE SumOver(_, _)
SumOver(S, f) ==
    IF S = {} THEN 0
    ELSE LET x == CHOOSE y \in S : TRUE IN f[x] + SumOver(S \ {x}, f)

\* C1: in a call of step, step_aux or step_mixed_batch with a phase other
\* than 'train', no batch runs backward() or optm.step(), and the model
\* parameters stay those of the moment of the call, up to the return.
C1_EvalKeepsParams ==
    (InCall /\ phase # "train") =>
        /\ optm.backward = 0
        /\ optm.step = 0
        /\ params = h.params0

\* An eval epoch of step_aux over two or more batches has returned, after an
\* earlier train epoch had moved the parameters.
C1_Witness ==
    /\ pc = "returned"
    /\ fn = "step_aux"
    /\ phase = "eval"
    /\ img_cnt >= 2
    /\ optm.zero_grad = img_cnt
    /\ params > 0

\* C2: whenever loss_weights is given with the length of bp_loss_idx and the
\* weight dict is used in the weighted sum, its weights add up to 1.0 (the
\* numerators add up to the common denominator).
C2_WeightsSumToOne ==
    (InCall /\ lw_arg.given /\ loss_all.terms # {}) =>
        SumOver(DOMAIN loss_weights, loss_weights) = w_den

\* C3: the weight dict is positional: with loss_weights given, the i-th index
\* of bp_loss_idx has the weight loss_weights[i] / sum(loss_weights); without
\* it every selected index has the weight 1.0, and the default bp_loss_idx
\* gives {0: 1.0}.
C3_WeightsPositional ==
    pc \in {"loop", "returned"} =>
        IF lw_arg.given
        THEN /\ w_den = SumSeq(lw_arg.w)
             /\ \A i \in DOMAIN bp_loss_idx :
                    loss_weights[bp_loss_idx[i]] = lw_arg.w[i]
        ELSE /\ w_den = 1
             /\ DOMAIN loss_weights = Range(bp_loss_idx)
             /\ \A a \in Range(bp_loss_idx) : loss_weights[a] = 1

\* C4: in every batch of every phase each criterion of the list is evaluated
\* and its tracker updated exactly once, and the report has an entry under
\* every criterion's name; loss_all gets one term weight * loss for each
\* criterion whose index is in bp_loss_idx, in the train phase only, and no
\* term for any other criterion.
C4_OnlySelectedContribute ==
    InCall =>
        /\ \A c \in CritIdx :
              /\ h.n_upd[c] = Processed
              /\ pc # "returned" =>
                    criterions[c].cnt = h.crit0[c].cnt + Processed * BatchSize
        /\ pc = "returned" =>
              \A c \in CritIdx : CritNames[c + 1] \in DOMAIN loss_dict
        /\ \A t \in loss_all.terms :
              /\ phase = "train"
              /\ t.idx \in Range(bp_loss_idx)
              /\ t.w = loss_weights[t.idx]
              /\ \A u \in loss_all.terms : u.idx = t.idx => u = t
        /\ (Processed > 0 /\ phase = "train") =>
              \A c \in CritIdx :
                  c \in Range(bp_loss_idx) =>
                      \E t \in loss_all.terms : t.idx = c

\* A train batch with only criterion 0 selected: it alone is in loss_all,
\* and the tracker of criterion 1 has been updated all the same.
C4_Witness ==
    /\ pc = "loop"
    /\ phase = "train"
    /\ bp_loss_idx = <<0>>
    /\ img_cnt >= 1
    /\ {t.idx : t \in loss_all.terms} = {0}
    /\ criterions[1].cnt > h.crit0[1].cnt

\* C5: when a call returns, every tracker passed to it has been reset, and
\* in a run of calls that all returned the report gives, for each criterion,
\* the running mean of the batches of this call alone.
C5_ReportIsThisEpoch ==
    pc = "returned" =>
        /\ \A c \in CritIdx : criterions[c] = NoLoss
        /\ Aux => cls_criterion = NoLoss
        /\ h.clean =>
              /\ \A c \in CritIdx :
                    loss_dict[CritNames[c + 1]] = TrackerGetLoss(h.ep[c])
              /\ Aux => loss_dict[ClsName] = TrackerGetLoss(h.ep_cls)

\* The second of two returning epochs, both of which saw batches.
C5_Witness ==
    /\ pc = "returned"
    /\ h.clean
    /\ calls = 2
    /\ h.params0 > 0
    /\ img_cnt >= 2
    /\ loss_dict[CritNames[1]][2] = img_cnt * BatchSize

\* C6: in a train call of step_mixed_batch the k-th batch of the primary
\* source (k = 0, 1, ...) is paired with batch k mod n of every secondary
\* source of n >= 1 batches.
C6_SecondaryCycles ==
    (fn = "step_mixed_batch" /\ phase = "train") =>
        \A k \in DOMAIN h.used :
            \A i \in DOMAIN h.used[k] :
                h.used[k][i] = (k - 1) % h.others0[i].len

\* C7: in a call of step_mixed_batch with a phase other than 'train' nothing
\* is drawn from a secondary source, its position does not move, and every
\* processed batch is the batch of the primary source alone.
C7_EvalLeavesOthers ==
    (fn = "step_mixed_batch" /\ phase # "train") =>
        /\ h.used = <<>>
        /\ \A i \in DOMAIN data_loader_others :
              /\ h.drawn[i] = 0
              /\ data_loader_others[i].pos = h.others0[i].pos
        /\ Processed > 0 => batch = <<0>>
        /\ BatchSize = RefBatchSize

\* An eval epoch of step_mixed_batch over two or more batches has returned,
\* with a secondary source in the list that an earlier call had advanced.
C7_Witness ==
    /\ pc = "returned"
    /\ fn = "step_mixed_batch"
    /\ phase = "eval"
    /\ img_cnt >= 2
    /\ Len(data_loader_others) >= 1
    /\ data_loader_others[1].pos > 0

\* C8: a loss_weights whose length differs from that of bp_loss_idx ends the
\* call with an assertion error before a batch is drawn, before a call of
\* the optimizer and before a tracker is updated, and leaves the arguments,
\* the list of secondary sources included, as they were.
C8_MismatchLeavesArguments ==
    (InCall /\ lw_arg.given /\ ~LenMatch(bp_loss_idx, lw_arg)) =>
        /\ pc = "failed"
        /\ err = "AssertionError"
        /\ img_cnt = 0
        /\ optm = NoOptm
        /\ criterions = h.crit0
        /\ cls_criterion = h.cls0
        /\ \A i \in DOMAIN h.drawn : h.drawn[i] = 0
        /\ data_loader_others = h.others0

\* C9: make_tb_image raising on the first batch does not end the call: the
\* loop goes on and the report is returned.
C9_VisFailureIsolated ==
    err = "VisError" => pc \in {"loop", "returned"}

\* C10: in step_aux every batch of every phase evaluates cls_criterion, adds
\* cls_weight * loss to loss_all whatever bp_loss_idx and loss_weights are,
\* and updates its tracker; the report has its running loss under its name
\* and the tracker is reset when the call returns.
C10_AuxLossAlwaysAdded ==
    (Aux /\ pc # "idle") =>
        /\ h.n_cls = Processed
        /\ loss_all.cls = cls_weight * loss_all.cls_loss
        /\ Processed > 0 =>
              /\ loss_all.cls_loss > 0
              /\ loss_all.tensor
              /\ \E i \in DOMAIN trace :
                    /\ trace[i] = "cls_criterion"
                    /\ \A j \in DOMAIN trace :
                          trace[j] \in {"backward", "step"} => i < j
              /\ \A t \in loss_all.terms : t.idx \in CritIdx
        /\ pc # "returned" =>
              /\ cls_criterion.cnt = h.cls0.cnt + Processed * BatchSize
              /\ cls_criterion.loss = h.cls0.loss + h.ep_cls.loss
        /\ pc = "returned" =>
              /\ ClsName \in DOMAIN loss_dict
              /\ loss_dict[ClsName] = <<h.cls0.loss + h.ep_cls.loss,
                                        h.cls0.cnt + h.ep_cls.cnt>>
              /\ cls_criterion = NoLoss

\* An eval epoch of step_aux with no criterion selected has returned after
\* two or more batches: the auxiliary term was in loss_all of each.
C10_Witness ==
    /\ pc = "returned"
    /\ Aux
    /\ phase = "eval"
    /\ bp_loss_idx = <<>>
    /\ img_cnt >= 2
    /\ loss_all.terms = {}
    /\ loss_all.cls > 0
    /\ loss_dict[ClsName][2] = img_cnt * BatchSize


\* C11: inference returns the first element of a tuple that forward returned
\* and any other value as forward returned it (a list too); forward is called
\* exactly once, with the inputs inference was given, and the model, the
\* optimizer and the trackers are as they were.  The empty tuple has no first
\* element: outputs[0] raises IndexError.
C11_InferenceUnwraps ==
    (inputs_.op = "inference" /\ outputs.done) =>
        /\ outputs.forward_calls = <<inputs_.args>>
        /\ Constructed
        /\ (inputs_.forward.kind = "tuple" /\ Len(inputs_.forward.v) >= 1) =>
               /\ outputs.res.raised = "none"
               /\ outputs.res.ret = inputs_.forward.v[1]
        /\ inputs_.forward.kind # "tuple" =>
               /\ outputs.res.raised = "none"
               /\ outputs.res.ret = inputs_.forward

C11_Witness ==
    /\ inputs_.op = "inference"
    /\ outputs.done
    /\ inputs_.forward.kind = "tuple"
    /\ Len(inputs_.forward.v) = 2
    /\ inputs_.forward.v[1] # inputs_.forward.v[2]
    /\ Len(inputs_.args) = 2
    /\ outputs.res.ret = inputs_.forward.v[1]

CropDone == inputs_.op = "crop" /\ outputs.done

\* The pixels of a label that lie at least m from each of the four borders.
Inner(label, m) ==
    {i \in Idx(label.shape) :
        /\ m <= i[2] /\ i[2] < label.shape[2] - m
        /\ m <= i[3] /\ i[3] < label.shape[3] - m}

Count(s, x) == Cardinality({i \in DOMAIN s : s[i] = x})

\* Where x occurs in the sequence s.
Pos(s, x) == CHOOSE i \in DOMAIN s : s[i] = x

\* C13: in a train epoch, for any criterions and any bp_loss_idx, every
\* batch is processed as zero_grad, forward, loss accumulation, backward and
\* one optimizer step, in this order; optm.step() has run once for each
\* batch processed, n times when the epoch over n batches returns, each time
\* after the zero_grad of the same batch.
C13_TrainBatchOrder ==
    (InCall /\ phase = "train" /\ Processed >= 1) =>
        /\ \A x \in {"zero_grad", "forward", "backward", "step"} :
               Count(trace, x) = 1
        /\ Pos(trace, "zero_grad") < Pos(trace, "forward")
        /\ \A i \in DOMAIN trace :
               trace[i] \in {"criterion", "update"} =>
                   /\ Pos(trace, "forward") < i
                   /\ i < Pos(trace, "backward")
        /\ Pos(trace, "backward") < Pos(trace, "step")
        /\ optm.step = Processed
        /\ optm.zero_grad = Processed
        /\ pc = "returned" => optm.step = data_loader

\* C14: every train call of step_mixed_batch, a second one with the same
\* data_loader_others list too, pairs its first batch with the first batch
\* of each secondary source, wherever an earlier call stopped.
C14_EpochRestartsOthers ==
    (fn = "step_mixed_batch" /\ phase = "train" /\ Len(h.used) >= 1) =>
        \A i \in DOMAIN h.used[1] : h.used[1][i] = 0

\* C15: in every call make_tb_image is invoked at most once, and only for
\* the first batch: once the first batch is done it has been invoked exactly
\* when save_image is true, a later batch neither invokes it nor writes
\* 'image', and the report returned has the key 'image' (the image of the
\* first batch) exactly when save_image is true and the source had a batch.
\* The criterions' names are other than 'image'.
C15_VisOnceOnFirstBatch ==
    InCall =>
        /\ h.n_vis <= 1
        /\ h.n_vis = 1 => save_image /\ Processed >= 1
        /\ img_cnt >= 1 => (h.n_vis = 1 <=> save_image)
        /\ Processed >= 2 => Count(trace, "make_tb_image") = 0
        /\ "image" \in DOMAIN loss_dict => loss_dict["image"] = Banner(0)
        /\ pc = "returned" =>
              ("image" \in DOMAIN loss_dict
                  <=> (save_image /\ data_loader >= 1))

\* An epoch over two or more batches with save_image has returned.
C15_Witness ==
    /\ pc = "returned"
    /\ save_image
    /\ img_cnt >= 2
    /\ h.n_vis = 1
    /\ loss_dict["image"] = Banner(0)

MixedTrain == fn = "step_mixed_batch" /\ phase = "train"

\* C16: in a train call of step_mixed_batch every processed batch is the
\* batch of the primary source followed by one batch of each secondary
\* source, in list order; for every batch processed exactly one batch has
\* been drawn from every secondary source; and every tracker has been given,
\* per batch, the size of the primary batch plus the sizes of all the
\* secondary batches.
C16_MixedBatchIsConcatenation ==
    (MixedTrain /\ pc # "hang") =>
        /\ Processed >= 1 =>
              /\ Len(batch) = 1 + Len(data_loader_others)
              /\ \A j \in DOMAIN batch : batch[j] = j - 1
        /\ \A i \in DOMAIN data_loader_others : h.drawn[i] = Processed
        /\ Len(h.used) = Processed
        /\ Len(h.fed) = Processed
        /\ \A k \in DOMAIN h.fed :
              h.fed[k] = RefBatchSize
                             + Len(data_loader_others) * OtherBatchSize

\* Two batches of a train epoch with two secondary sources are done.
C16_Witness ==
    /\ MixedTrain
    /\ pc = "loop"
    /\ img_cnt = 2
    /\ Len(data_loader_others) = 2
    /\ batch = <<0, 1, 2>>
    /\ h.fed = <<RefBatchSize + 2 * OtherBatchSize,
                 RefBatchSize + 2 * OtherBatchSize>>

\* C17: a train call of step_mixed_batch never waits for ever on a secondary
\* source, whatever finite sources are in the list, and when it returns it
\* has processed exactly the batches of the primary source.
C17_MixedTrainTerminates ==
    MixedTrain =>
        /\ pc # "hang"
        /\ pc = "returned" => img_cnt = data_loader

\* C18: in any run of calls that use the same trackers, failed calls
\* included, the report a call returns gives for each criterion the running
\* mean of the batches of this call alone.
C18_ReportAfterAnyCalls ==
    pc = "returned" =>
        /\ \A c \in CritIdx :
              loss_dict[CritNames[c + 1]] = TrackerGetLoss(h.ep[c])
        /\ Aux => loss_dict[ClsName] = TrackerGetLoss(h.ep_cls)

====
